---- MODULE Spec2Model ----
(***************************************************************************)
(* prmd: rendering of a parsed Markdown document tree to terminal text.    *)
(*                                                                         *)
(* A string is a sequence of tokens.  A token is one character ("a", " ", *)
(* "\n", the glyphs) or one terminal attribute sequence: "ESC[3m" stands   *)
(* for the bytes \x1b[3m.  A node of the tree is a record with the fields  *)
(* of Node below; `kind` is the NodeValue variant.                         *)
(***************************************************************************)
EXTENDS Integers, Sequences, FiniteSets

\* ---------------------------------------------------------------- bounds
\* longest Text literal of a generated table cell
MaxLit == 3
\* deepest list level generated (0 is a top-level list)
MaxListDepth == 2
\* deepest blockquote level generated (0 is a top-level blockquote)
MaxQuoteDepth == 1
\* most inline children of a generated heading
MaxKids == 2
\* most top-level blocks of a generated multi-block document
MaxBlocks == 2

\* ------------------------------------------------------------- the tree
Node(kind, literal, children) ==
    [kind |-> kind, literal |-> literal, children |-> children,
     url |-> <<>>, level |-> 0, info |-> <<>>,
     list_type |-> "Bullet", start |-> 0, delimiter |-> "Period",
     num_columns |-> 0, alignments |-> <<>>, is_header |-> FALSE]

Leaf(kind) == Node(kind, <<>>, <<>>)
Text(literal) == Node("Text", literal, <<>>)
Wrap(kind, children) == Node(kind, <<>>, children)
Link(kind, url, children) == [Node(kind, <<>>, children) EXCEPT !.url = url]
Heading(level, children) == [Node("Heading", <<>>, children) EXCEPT !.level = level]
CodeBlock(info, literal) == [Node("CodeBlock", literal, <<>>) EXCEPT !.info = info]
Item(nl, children) ==
    [Node("Item", <<>>, children) EXCEPT
        !.list_type = nl.list_type, !.start = nl.start, !.delimiter = nl.delimiter]
List(nl, children) ==
    [Node("List", <<>>, children) EXCEPT
        !.list_type = nl.list_type, !.start = nl.start, !.delimiter = nl.delimiter]
TableRow(is_header, children) ==
    [Node("TableRow", <<>>, children) EXCEPT !.is_header = is_header]
Table(num_columns, alignments, children) ==
    [Node("Table", <<>>, children) EXCEPT
        !.num_columns = num_columns, !.alignments = alignments]

\* ---------------------------------------------------------- the strings
Bold == "ESC[1m"
Italic == "ESC[3m"
Underlined == "ESC[4m"
Inverse == "ESC[7m"
Struck == "ESC[9m"
Reset == "ESC[0m"
BoldUnderlined == "ESC[1;4m"
BoldItalic == "ESC[1;3m"
ItalicUnderlined == "ESC[3;4m"
ClearEol == "ESC[0K"
CodeFg == "ESC[97m"
CodeBg == "ESC[48;5;238m"
\* the glyphs, named by code point
Broken == "U+1F494"
Bar == "U+2502"
Pilcrow == "U+00B6"
Bullet0 == "U+2022"
Bullet1 == "U+25E6"
Bullet2 == "U+25AA"
RedDot == "U+1F534"
Diamond == "U+2666"
\* the text of the placeholders, one token each
InTextNode == " unexpected child in Text node: "
InTableRow == " unexpected child in Table Row Node: "
InTable == " unexpected child in Table Node: "
InListItem == " unexpected child in List Item Node: "
InList == " unexpected child in List Node: "

AttrSeqs ==
    {Bold, Italic, Underlined, Inverse, Struck, Reset, BoldUnderlined,
     BoldItalic, ItalicUnderlined, ClearEol, CodeFg, CodeBg}

\* The UTF-8 bytes of one token of a plain text, as str::len counts them.
\* The length of a {:#?} dump is not modelled (no case for it): no generated
\* table cell holds an unknown inline kind.
Utf8Len(tok) ==
    CASE tok = Broken -> 4
      [] tok = InTextNode -> 32
      [] tok \notin {Broken, InTextNode, "{:#?}"} -> 1

RECURSIVE len(_)
len(s) == IF s = <<>> THEN 0 ELSE Utf8Len(Head(s)) + len(Tail(s))

RECURSIVE repeat(_, _)
repeat(s, n) == IF n <= 0 THEN <<>> ELSE s \o repeat(s, n - 1)

RECURSIVE Digits(_)
Digits(n) ==
    LET d == <<"0", "1", "2", "3", "4", "5", "6", "7", "8", "9">>[(n % 10) + 1]
    IN IF n < 10 THEN <<d>> ELSE Digits(n \div 10) \o <<d>>

\* str::lines: the pieces between "\n", a final empty piece dropped.
RECURSIVE SplitNl(_, _)
SplitNl(s, cur) ==
    IF s = <<>> THEN <<cur>>
    ELSE IF Head(s) = "\n" THEN <<cur>> \o SplitNl(Tail(s), <<>>)
    ELSE SplitNl(Tail(s), Append(cur, Head(s)))

lines(s) ==
    LET parts == SplitNl(s, <<>>)
    IN IF parts[Len(parts)] = <<>> THEN SubSeq(parts, 1, Len(parts) - 1) ELSE parts

\* {:#?} of a node, cut down to the part that shows its literal: the Debug
\* form of a string escapes a line break as the two characters \ and n.
RECURSIVE EscapeDebug(_)
EscapeDebug(s) ==
    IF s = <<>> THEN <<>>
    ELSE (IF Head(s) = "\n" THEN <<"\\", "n">> ELSE <<Head(s)>>) \o EscapeDebug(Tail(s))

DebugFmt(node) == <<"{:#?}", node.kind, "\"">> \o EscapeDebug(node.literal) \o <<"\"">>

Unexpected(where, node) == <<Broken, where>> \o DebugFmt(node)

\* ------------------------------------------------- the inline renderers
RECURSIVE node_children_to_plain_text(_), text_node_to_plain_text(_)
RECURSIVE PlainFold(_, _)
\* the fold of node_children_to_plain_text over the first n children
PlainFold(kids, n) ==
    IF n = 0 THEN <<>>
    ELSE PlainFold(kids, n - 1) \o text_node_to_plain_text(kids[n])

node_children_to_plain_text(node) == PlainFold(node.children, Len(node.children))

text_node_to_plain_text(text_node) ==
    CASE text_node.kind \in {"Emph", "Strong", "Underline", "Strikethrough", "Paragraph"} ->
            node_children_to_plain_text(text_node)
      [] text_node.kind = "SoftBreak" -> <<" ">>
      [] text_node.kind = "LineBreak" -> <<"\n">>
      [] text_node.kind = "Code" -> text_node.literal
      [] text_node.kind = "HtmlInline" -> text_node.literal
      [] text_node.kind = "Link" ->
            node_children_to_plain_text(text_node) \o <<" ", "[">> \o text_node.url \o <<"]">>
      [] text_node.kind = "Image" ->
            node_children_to_plain_text(text_node) \o <<" ">> \o text_node.url
      [] text_node.kind = "Text" -> text_node.literal
      [] OTHER -> Unexpected(InTextNode, text_node)

RECURSIVE node_children_to_text(_, _, _), text_node_to_formatted_text(_)
RECURSIVE FormattedFold(_, _, _, _), paragraph_node_to_text(_)
\* the fold of node_children_to_text over the first n children: each step
\* wraps the accumulator and the child's text in bol and eol
FormattedFold(kids, n, bol, eol) ==
    IF n = 0 THEN <<>>
    ELSE bol \o FormattedFold(kids, n - 1, bol, eol)
             \o text_node_to_formatted_text(kids[n]) \o eol

\* bol, eol: the Option<&str> arguments, None being the empty string
node_children_to_text(node, bol, eol) ==
    FormattedFold(node.children, Len(node.children), bol, eol)

text_node_to_formatted_text(text_node) ==
    CASE text_node.kind = "Emph" -> node_children_to_text(text_node, <<Italic>>, <<Reset>>)
      [] text_node.kind = "Strong" -> node_children_to_text(text_node, <<Bold>>, <<Reset>>)
      [] text_node.kind = "Underline" ->
            node_children_to_text(text_node, <<Underlined>>, <<Reset>>)
      [] text_node.kind = "Strikethrough" ->
            node_children_to_text(text_node, <<Struck>>, <<Reset>>)
      [] text_node.kind = "SoftBreak" -> <<" ">>
      [] text_node.kind = "Paragraph" -> paragraph_node_to_text(text_node)
      [] text_node.kind = "LineBreak" -> <<"\n">>
      [] text_node.kind = "Code" -> <<Inverse>> \o text_node.literal \o <<Reset>>
      [] text_node.kind = "HtmlInline" -> text_node.literal
      [] text_node.kind = "Link" ->
            node_children_to_text(text_node, <<Underlined>>, <<Reset>>)
                \o <<" ", "[">> \o text_node.url \o <<"]">>
      [] text_node.kind = "Image" ->
            node_children_to_text(text_node, <<Bold>>, <<Reset>>)
                \o <<" ", "[", Underlined>> \o text_node.url \o <<Reset, "]">>
      [] text_node.kind = "Text" -> text_node.literal
      [] OTHER -> Unexpected(InTextNode, text_node)

paragraph_node_to_text(paragraph_node) ==
    node_children_to_text(paragraph_node, <<>>, <<>>) \o <<"\n">>

\* ------------------------------------------------- the block renderers
thematic_break_node_to_text == <<Pilcrow, "\n", "\n">>

RECURSIVE blockquote_node_to_text(_, _), BlockquoteFold(_, _, _)
\* the fold of blockquote_node_to_text over the first n children: the arm of
\* a child that is no BlockQuote does not use the accumulator
BlockquoteFold(kids, n, level) ==
    IF n = 0 THEN <<>>
    ELSE LET acc == BlockquoteFold(kids, n - 1, level)
             child == kids[n]
             lead == repeat(<<Bar, " ">>, level + 1)
         IN IF child.kind = "BlockQuote"
            THEN acc \o blockquote_node_to_text(child, level + 1)
            ELSE lead \o node_children_to_text(child, <<>>, <<>>)

blockquote_node_to_text(blockquote_node, level) ==
    <<"\n">> \o BlockquoteFold(blockquote_node.children,
                               Len(blockquote_node.children), level) \o <<"\n">>

RECURSIVE CodeLinesFold(_, _)
CodeLinesFold(ls, n) ==
    IF n = 0 THEN <<>>
    ELSE CodeLinesFold(ls, n - 1) \o <<CodeFg, CodeBg>> \o ls[n]
             \o <<ClearEol, Reset, "\n">>

code_block_node_to_text(code_block) ==
    LET ls == lines(code_block.literal)
    IN CodeLinesFold(ls, Len(ls)) \o <<"\n">>

html_block_node_to_text(html_block_node) == html_block_node.literal \o <<"\n">>

heading_node_to_text(node) ==
    LET ansi == CASE node.level = 1 -> BoldUnderlined
                  [] node.level = 2 -> BoldItalic
                  [] node.level = 3 -> ItalicUnderlined
                  [] node.level = 4 -> Italic
                  [] OTHER -> Underlined
    IN node_children_to_text(node, <<ansi>>, <<Reset, "\n", "\n">>)

\* ---------------------------------------------------------- the table
\* Vec<usize> under {:?}
RECURSIVE DebugVecFold(_, _)
DebugVecFold(v, n) ==
    IF n = 0 THEN <<>>
    ELSE DebugVecFold(v, n - 1) \o (IF n > 1 THEN <<",", " ">> ELSE <<>>) \o Digits(v[n])

DebugVec(v) == <<"[">> \o DebugVecFold(v, Len(v)) \o <<"]">>

\* width - text.len() on usize: below zero there is no result
CellPanics(table_cell_node, width) ==
    width < len(node_children_to_plain_text(table_cell_node))

\* table_cell_node_to_text with the two halves of a centred cell's padding
\* exchanged
table_cell_centre_swapped(table_cell_node, is_header, width, alignment) ==
    LET text == node_children_to_plain_text(table_cell_node)
        padding == width - len(text)
        right_padding == padding \div 2
        left_padding == padding - right_padding
        lead == CASE alignment = "Center" -> repeat(<<" ">>, left_padding)
                  [] alignment = "Right" -> repeat(<<" ">>, padding)
                  [] alignment \in {"None", "Left"} -> <<>>
        trail == CASE alignment = "Center" -> repeat(<<" ">>, right_padding)
                   [] alignment = "Right" -> <<>>
                   [] alignment \in {"None", "Left"} -> repeat(<<" ">>, padding)
        formatted == node_children_to_text(table_cell_node, <<>>, <<>>)
    IN IF is_header
       THEN <<BoldUnderlined>> \o lead \o formatted \o <<" ">> \o trail
                \o <<ClearEol, Reset>>
       ELSE lead \o formatted \o <<" ">> \o trail

table_cell_node_to_text(table_cell_node, is_header, width, alignment) ==
    LET text == node_children_to_plain_text(table_cell_node)
        padding == width - len(text)
        left_padding == padding \div 2
        right_padding == padding - left_padding
        lead == CASE alignment = "Center" -> repeat(<<" ">>, left_padding)
                  [] alignment = "Right" -> repeat(<<" ">>, padding)
                  [] alignment \in {"None", "Left"} -> <<>>
        trail == CASE alignment = "Center" -> repeat(<<" ">>, right_padding)
                   [] alignment = "Right" -> <<>>
                   [] alignment \in {"None", "Left"} -> repeat(<<" ">>, padding)
        formatted == node_children_to_text(table_cell_node, <<>>, <<>>)
    IN IF is_header
       THEN <<BoldUnderlined>> \o lead \o formatted \o <<" ">> \o trail
                \o <<ClearEol, Reset>>
       ELSE lead \o formatted \o <<" ">> \o trail

\* column_widths[index] and alignments[index] of a cell past either's end
CellIndexPanics(index, column_widths, alignments) ==
    index > Len(column_widths) \/ index > Len(alignments)

RECURSIVE TableRowFold(_, _, _, _, _)
TableRowFold(kids, n, is_header, column_widths, alignments) ==
    IF n = 0 THEN <<>>
    ELSE LET acc == TableRowFold(kids, n - 1, is_header, column_widths, alignments)
             child == kids[n]
         IN IF child.kind = "TableCell"
            THEN acc \o table_cell_node_to_text(child, is_header,
                                                column_widths[n], alignments[n])
            ELSE acc \o Unexpected(InTableRow, child)

table_row_node_to_text(table_row_node, is_header, column_widths, alignments) ==
    TableRowFold(table_row_node.children, Len(table_row_node.children),
                 is_header, column_widths, alignments) \o <<"\n">>

\* whether table_row_node_to_text panics instead of returning
TableRowPanics(table_row_node, column_widths, alignments) ==
    \E n \in 1..Len(table_row_node.children) :
        /\ table_row_node.children[n].kind = "TableCell"
        /\ IF CellIndexPanics(n, column_widths, alignments) THEN TRUE
           ELSE CellPanics(table_row_node.children[n], column_widths[n])

\* what table_row_node_to_text prints to standard output
TableRowPrintln(column_widths) ==
    <<"column lengths: ">> \o DebugVec(column_widths) \o <<"\n">>

row_column_widths(table_node) ==
    [r \in 1..Len(table_node.children) |->
        LET row == table_node.children[r]
        IN IF row.kind = "TableRow"
           THEN [c \in 1..Len(row.children) |->
                    IF row.children[c].kind = "TableCell"
                    THEN len(node_children_to_plain_text(row.children[c]))
                    ELSE 0]
           ELSE <<>>]

\* row[i] of a row with fewer than num_columns entries
ColumnWidthsPanics(table_node) ==
    \E r \in 1..Len(table_node.children) :
        Len(row_column_widths(table_node)[r]) < table_node.num_columns

RECURSIVE ColumnWidthsFold(_, _, _)
ColumnWidthsFold(rcw, n, num_columns) ==
    IF n = 0 THEN [i \in 1..num_columns |-> 0]
    ELSE LET acc == ColumnWidthsFold(rcw, n - 1, num_columns)
             row == rcw[n]
         IN [i \in 1..num_columns |-> IF row[i] > acc[i] THEN row[i] ELSE acc[i]]

column_widths(table_node) ==
    ColumnWidthsFold(row_column_widths(table_node), Len(table_node.children),
                     table_node.num_columns)

RECURSIVE TableFold(_, _, _, _)
TableFold(kids, n, widths, alignments) ==
    IF n = 0 THEN <<>>
    ELSE LET acc == TableFold(kids, n - 1, widths, alignments)
             child == kids[n]
         IN IF child.kind = "TableRow"
            THEN acc \o table_row_node_to_text(child, child.is_header, widths, alignments)
            ELSE acc \o Unexpected(InTable, child)

table_node_to_text(table_node) ==
    <<"\n">> \o TableFold(table_node.children, Len(table_node.children),
                          column_widths(table_node), table_node.alignments)
            \o <<"\n">>

\* whether table_node_to_text panics instead of returning
TablePanics(table_node) ==
    IF ColumnWidthsPanics(table_node) THEN TRUE
    ELSE \E r \in 1..Len(table_node.children) :
            /\ table_node.children[r].kind = "TableRow"
            /\ TableRowPanics(table_node.children[r], column_widths(table_node),
                              table_node.alignments)

\* what table_node_to_text prints to standard output: nothing when the
\* widths panic, else one line per row up to the first row that panics
RECURSIVE TablePrintlnFold(_, _, _, _)
TablePrintlnFold(kids, n, widths, alignments) ==
    IF n = 0 THEN <<>>
    ELSE IF \E r \in 1..(n - 1) :
              /\ kids[r].kind = "TableRow"
              /\ TableRowPanics(kids[r], widths, alignments)
         THEN TablePrintlnFold(kids, n - 1, widths, alignments)
         ELSE TablePrintlnFold(kids, n - 1, widths, alignments)
                \o (IF kids[n].kind = "TableRow" THEN TableRowPrintln(widths) ELSE <<>>)

TablePrintln(table_node) ==
    IF ColumnWidthsPanics(table_node) THEN <<>>
    ELSE TablePrintlnFold(table_node.children, Len(table_node.children),
                          column_widths(table_node), table_node.alignments)

\* ----------------------------------------------------------- the lists
RECURSIVE ItemLinesFold(_, _, _, _, _)
\* the fold over paragraph_node_to_text(child).lines().enumerate()
ItemLinesFold(ls, n, lead, lead2, marker) ==
    IF n = 0 THEN <<>>
    ELSE LET acc == ItemLinesFold(ls, n - 1, lead, lead2, marker)
             line == ls[n]
             cooked == IF n = 1
                       THEN lead \o marker \o <<" ">> \o line \o <<"\n">>
                       ELSE lead \o <<" ">> \o lead2 \o line \o <<"\n">>
         IN acc \o cooked

\* item_paragraph_to_text with two spaces of lead for a level, not four
item_paragraph_two_per_level(child, level, node_list) ==
    LET bullet == node_list.list_type = "Bullet"
        marker == IF bullet
                  THEN CASE level = 0 -> <<Bullet0>>
                         [] level = 1 -> <<Bullet1>>
                         [] OTHER -> <<Bullet2>>
                  ELSE Digits(node_list.start)
                         \o (IF node_list.delimiter = "Period" THEN <<".">> ELSE <<")">>)
        marker_len == IF bullet THEN 1 ELSE 2
        lead == repeat(<<" ">>, level * 2)
        lead2 == repeat(<<" ">>, marker_len + 1)
        ls == lines(paragraph_node_to_text(child))
    IN <<" ">> \o ItemLinesFold(ls, Len(ls), lead, lead2, marker)

\* the Paragraph arm of item_node_to_text's fold, less the accumulator
item_paragraph_to_text(child, level, node_list) ==
    LET bullet == node_list.list_type = "Bullet"
        marker == IF bullet
                  THEN CASE level = 0 -> <<Bullet0>>
                         [] level = 1 -> <<Bullet1>>
                         [] OTHER -> <<Bullet2>>
                  ELSE Digits(node_list.start)
                         \o (IF node_list.delimiter = "Period" THEN <<".">> ELSE <<")">>)
        marker_len == IF bullet THEN 1 ELSE 2
        lead == repeat(<<" ">>, level * 4)
        lead2 == repeat(<<" ">>, marker_len + 1)
        ls == lines(paragraph_node_to_text(child))
    IN <<" ">> \o ItemLinesFold(ls, Len(ls), lead, lead2, marker)

RECURSIVE list_node_to_text(_, _), item_node_to_text(_, _, _)
RECURSIVE ItemFold(_, _, _, _), ListFold(_, _, _)
ItemFold(kids, n, level, node_list) ==
    IF n = 0 THEN <<>>
    ELSE LET acc == ItemFold(kids, n - 1, level, node_list)
             child == kids[n]
         IN CASE child.kind = "List" -> acc \o list_node_to_text(child, level + 1)
              [] child.kind = "Paragraph" ->
                    acc \o item_paragraph_to_text(child, level, node_list)
              [] OTHER -> acc \o Unexpected(InListItem, child)

item_node_to_text(item_node, level, node_list) ==
    ItemFold(item_node.children, Len(item_node.children), level, node_list)

ListFold(kids, n, level) ==
    IF n = 0 THEN <<>>
    ELSE LET acc == ListFold(kids, n - 1, level)
             child == kids[n]
         IN IF child.kind = "Item"
            THEN acc \o item_node_to_text(child, level, child)
            ELSE acc \o Unexpected(InList, child)

list_node_to_text(list_node, level) ==
    LET items == ListFold(list_node.children, Len(list_node.children), level)
    IN IF level = 0 THEN items \o <<"\n">> ELSE items

\* ------------------------------------------------- the generated trees
SeqsUpTo(S, n) == UNION {[1..k -> S] : k \in 1..n}

TextA == Text(<<"a">>)
Paragraph(children) == Wrap("Paragraph", children)
HtmlBlockP == Node("HtmlBlock", <<"<", "p", ">", "\n">>, <<>>)
BrokenLine == <<TextA, Leaf("LineBreak"), TextA>>

InlineAtoms ==
    {TextA, Node("Code", <<"c">>, <<>>), Node("HtmlInline", <<"<", "b", ">">>, <<>>),
     Wrap("Emph", <<TextA>>), Wrap("Strong", <<TextA, TextA>>),
     Wrap("Underline", <<TextA>>), Wrap("Strikethrough", <<TextA>>),
     Link("Link", <<"u">>, <<TextA>>), Link("Image", <<"u">>, <<TextA>>),
     Leaf("SoftBreak"), Leaf("LineBreak"), Leaf("FootnoteReference")}

Paragraphs == {Paragraph(kids) : kids \in SeqsUpTo(InlineAtoms, MaxKids)}

HeadingAtoms == {TextA, Node("Code", <<"c">>, <<>>), Wrap("Emph", <<TextA>>), Leaf("SoftBreak")}
HeadingLevels == 1..6
Headings ==
    {Heading(l, kids) : l \in HeadingLevels, kids \in SeqsUpTo(HeadingAtoms, MaxKids)}

\* tables of a header row and a body row that meet the invariants of the
\* data model, and the malformed ones
Aligns == {"None", "Left", "Center", "Right"}
Lits == {repeat(<<"a">>, n) : n \in 1..MaxLit}
CellContents ==
    {<<>>} \cup {<<Text(l)>> : l \in Lits}
        \cup {<<Node("Code", <<"c">>, <<>>)>>, <<Wrap("Emph", <<TextA>>)>>,
              <<Link("Link", <<"u">>, <<TextA>>)>>, <<Link("Image", <<"u">>, <<TextA>>)>>}
NarrowContents == {<<TextA>>, <<Text(<<"a", "a">>)>>}
Cell(children) == Wrap("TableCell", children)

Tables1 ==
    {Table(1, <<al>>, <<TableRow(TRUE, <<Cell(h)>>), TableRow(FALSE, <<Cell(b)>>)>>) :
        al \in Aligns, h \in CellContents, b \in CellContents}
Tables2 ==
    {Table(2, <<al[1], al[2]>>,
           <<TableRow(TRUE, <<Cell(c[1]), Cell(d[1])>>),
             TableRow(FALSE, <<Cell(c[2]), Cell(d[2])>>)>>) :
        al \in Aligns \X Aligns, c \in CellContents \X CellContents,
        d \in NarrowContents \X NarrowContents}
WellFormedTables == Tables1 \cup Tables2
ShortRowTable == Table(2, <<"Left", "Left">>, <<TableRow(TRUE, <<Cell(<<TextA>>)>>)>>)
LongRowTable ==
    Table(1, <<"Left">>, <<TableRow(TRUE, <<Cell(<<TextA>>), Cell(<<TextA>>)>>)>>)
NoRowTable ==
    Table(1, <<"Left">>, <<TableRow(TRUE, <<Cell(<<TextA>>)>>), Paragraph(<<TextA>>)>>)
NoRowTable0 == Table(0, <<>>, <<Paragraph(<<TextA>>)>>)
NoCellTable == Table(1, <<"Left">>, <<TableRow(TRUE, <<TextA>>)>>)
MalformedTables == {ShortRowTable, LongRowTable, NoRowTable, NoRowTable0, NoCellTable}

\* lists: an item holds a paragraph, or a paragraph and a list one level down
NodeList(list_type, start, delimiter) ==
    [list_type |-> list_type, start |-> start, delimiter |-> delimiter]
NodeLists ==
    {NodeList("Bullet", 0, "Period"), NodeList("Ordered", 1, "Period"),
     NodeList("Ordered", 10, "Paren")}
ItemParagraphs == {Paragraph(<<TextA>>), Paragraph(BrokenLine)}

RECURSIVE Lists(_)
Lists(level) ==
    {List(nl, <<Item(nl, <<p>>)>>) : nl \in NodeLists, p \in ItemParagraphs}
      \cup (IF level < MaxListDepth
            THEN {List(x[1], <<Item(x[1], <<x[2], x[3]>>)>>) :
                    x \in NodeLists \X ItemParagraphs \X Lists(level + 1)}
            ELSE {})
TwoItemLists ==
    {List(nl, <<Item(nl, <<p[1]>>), Item(nl, <<p[2]>>)>>) :
        nl \in NodeLists, p \in ItemParagraphs \X ItemParagraphs}
NoItemList == List(NodeList("Bullet", 0, "Period"), <<Paragraph(<<TextA>>)>>)
StrayItemList ==
    List(NodeList("Bullet", 0, "Period"),
         <<Item(NodeList("Bullet", 0, "Period"), <<Leaf("ThematicBreak")>>)>>)
WellFormedLists == Lists(0) \cup TwoItemLists
MalformedLists == {NoItemList, StrayItemList}

\* blockquotes of one or two children
QuoteLeaves == {Paragraph(BrokenLine), HtmlBlockP}
RECURSIVE Quotes(_)
Quotes(level) ==
    {Wrap("BlockQuote", kids) :
        kids \in SeqsUpTo(QuoteLeaves \cup
                            (IF level < MaxQuoteDepth THEN Quotes(level + 1) ELSE {}), 2)}

CodeBlockXY == CodeBlock(<<"r", "s">>, <<"x", "\n", "y", "\n">>)
StrayBlocks == {TextA, Wrap("Emph", <<TextA>>), Leaf("TableCell"), Leaf("Item")}
SmallBlocks ==
    {Paragraph(<<TextA>>), Heading(1, <<TextA>>), Leaf("ThematicBreak"), CodeBlockXY,
     HtmlBlockP, ShortRowTable, NoItemList,
     Wrap("BlockQuote", <<Paragraph(<<TextA>>)>>)} \cup StrayBlocks

Blocks ==
    Paragraphs \cup Headings \cup WellFormedTables \cup MalformedTables
        \cup WellFormedLists \cup MalformedLists \cup Quotes(0) \cup SmallBlocks

Documents ==
    {Wrap("Document", <<b>>) : b \in Blocks}
        \cup {Wrap("Document", bs) : bs \in SeqsUpTo(SmallBlocks, MaxBlocks)}

\* ------------------------------------------------------- the program
VARIABLES
    document,          \* the tree parse_document returned
    plain,             \* args.plain, which main hands to markdown_to_text; the
                       \* markdown_to_text of lib.rs takes the text alone, so
                       \* no renderer reads it
    pc,                \* "render": in document_node_to_text's for_each;
                       \* "print": markdown_to_text returned; "exit"; "panic"
    next_child,        \* the child of the document the for_each is at
    document_string,   \* document_node_to_text's accumulator
    text,              \* what the renderer the last arm called returned
    stdout             \* what the process has written to standard output

vars == <<document, plain, pc, next_child, document_string, text, stdout>>

Init ==
    /\ document \in Documents
    /\ plain \in BOOLEAN
    /\ pc = "render"
    /\ next_child = 1
    /\ document_string = <<>>
    /\ text = <<>>
    /\ stdout = <<>>

\* the kinds whose arm of document_node_to_text only prints
PrintlnKinds ==
    {"DescriptionList", "DescriptionItem", "DescriptionTerm", "DescriptionDetails",
     "FootnoteDefinition", "TableRow", "TableCell", "Text", "TaskItem", "SoftBreak",
     "LineBreak", "Code", "HtmlInline", "Emph", "Strong", "Strikethrough",
     "Superscript", "Link", "Image", "FootnoteReference", "Math",
     "MultilineBlockQuote", "Escaped", "WikiLink", "Underline", "SpoileredText",
     "EscapedTag"}
RenderedKinds ==
    {"Paragraph", "List", "Heading", "CodeBlock", "ThematicBreak", "BlockQuote",
     "HtmlBlock", "Table"}

\* the line a printing arm writes
Println(child) ==
    <<RedDot, " ", child.kind>>
        \o (IF child.kind = "Text" THEN <<":", " ">> \o child.literal ELSE <<>>)
        \o <<Diamond, "\n">>

AtChild(kinds) ==
    /\ pc = "render"
    /\ next_child <= Len(document.children)
    /\ document.children[next_child].kind \in kinds

\* document_string += <renderer>(child)
Push(rendered) ==
    /\ text' = rendered
    /\ document_string' = document_string \o rendered
    /\ next_child' = next_child + 1
    /\ UNCHANGED <<document, plain, pc>>

ParagraphArm ==
    /\ AtChild({"Paragraph"})
    /\ Push(paragraph_node_to_text(document.children[next_child]))
    /\ UNCHANGED stdout

ListArm ==
    /\ AtChild({"List"})
    /\ Push(list_node_to_text(document.children[next_child], 0))
    /\ UNCHANGED stdout

HeadingArm ==
    /\ AtChild({"Heading"})
    /\ Push(heading_node_to_text(document.children[next_child]))
    /\ UNCHANGED stdout

CodeBlockArm ==
    /\ AtChild({"CodeBlock"})
    /\ Push(code_block_node_to_text(document.children[next_child]))
    /\ UNCHANGED stdout

ThematicBreakArm ==
    /\ AtChild({"ThematicBreak"})
    /\ Push(thematic_break_node_to_text)
    /\ UNCHANGED stdout

BlockQuoteArm ==
    /\ AtChild({"BlockQuote"})
    /\ Push(blockquote_node_to_text(document.children[next_child], 0))
    /\ UNCHANGED stdout

HtmlBlockArm ==
    /\ AtChild({"HtmlBlock"})
    /\ Push(html_block_node_to_text(document.children[next_child]))
    /\ UNCHANGED stdout

TableArm ==
    /\ AtChild({"Table"})
    /\ ~TablePanics(document.children[next_child])
    /\ Push(table_node_to_text(document.children[next_child]))
    /\ stdout' = stdout \o TablePrintln(document.children[next_child])

\* table_node_to_text panics: the process ends, nothing is returned
TableArmPanic ==
    /\ AtChild({"Table"})
    /\ TablePanics(document.children[next_child])
    /\ pc' = "panic"
    /\ stdout' = stdout \o TablePrintln(document.children[next_child])
    /\ UNCHANGED <<document, plain, next_child, document_string, text>>

PrintlnArm ==
    /\ AtChild(PrintlnKinds)
    /\ stdout' = stdout \o Println(document.children[next_child])
    /\ next_child' = next_child + 1
    /\ UNCHANGED <<document, plain, pc, document_string, text>>

\* _ => {}
OtherArm ==
    /\ pc = "render"
    /\ next_child <= Len(document.children)
    /\ document.children[next_child].kind \notin PrintlnKinds \cup RenderedKinds
    /\ next_child' = next_child + 1
    /\ UNCHANGED <<document, plain, pc, document_string, text, stdout>>

\* document_node_to_text, ast_to_text and markdown_to_text return
Return ==
    /\ pc = "render"
    /\ next_child > Len(document.children)
    /\ pc' = "print"
    /\ UNCHANGED <<document, plain, next_child, document_string, text, stdout>>

\* main: print!("{}", ...)
MainPrint ==
    /\ pc = "print"
    /\ stdout' = stdout \o document_string
    /\ pc' = "exit"
    /\ UNCHANGED <<document, plain, next_child, document_string, text>>

Next ==
    \/ ParagraphArm
    \/ ListArm
    \/ HeadingArm
    \/ CodeBlockArm
    \/ ThematicBreakArm
    \/ BlockQuoteArm
    \/ HtmlBlockArm
    \/ TableArm
    \/ TableArmPanic
    \/ PrintlnArm
    \/ OtherArm
    \/ Return
    \/ MainPrint

Spec == Init /\ [][Next]_vars

\* ------------------------------------------------------ the properties
\* the characters a terminal shows: the attribute sequences take no column
Displayed(s) == SelectSeq(s, LAMBDA tok : tok \notin AttrSeqs)
HasToken(s, toks) == \E i \in 1..Len(s) : s[i] \in toks
Contains(s, sub) ==
    \E i \in 0..(Len(s) - Len(sub)) : SubSeq(s, i + 1, i + Len(sub)) = sub
Spaces(n) == [i \in 1..n |-> " "]
RECURSIVE LeadSpaces(_)
LeadSpaces(s) ==
    IF s = <<>> \/ Head(s) # " " THEN 0 ELSE 1 + LeadSpaces(Tail(s))
RECURSIVE TrailSpaces(_)
TrailSpaces(s) ==
    IF s = <<>> \/ s[Len(s)] # " " THEN 0
    ELSE 1 + TrailSpaces(SubSeq(s, 1, Len(s) - 1))

\* the child whose arm ran last, and whether a renderer returned for it
LastChild == document.children[next_child - 1]
Rendered(kind) == next_child > 1 /\ LastChild.kind = kind
Returned == pc \in {"print", "exit"}

\* C1: rendering in plain mode returns a string with no terminal attribute
\* sequence in it.
C1_PlainModePurity ==
    (Returned /\ plain) => ~HasToken(document_string, AttrSeqs)

\* the levels at which a blockquote holds children that are no blockquote
RECURSIVE QuoteLevels(_, _)
QuoteLevels(bq, level) ==
    UNION {IF bq.children[i].kind = "BlockQuote"
           THEN QuoteLevels(bq.children[i], level + 1)
           ELSE {level} : i \in 1..Len(bq.children)}
StartsWithLeads(line, k) ==
    /\ Len(line) >= 2 * k
    /\ \A i \in 1..k : line[2 * i - 1] = Bar /\ line[2 * i] = " "
    /\ Len(line) > 2 * k => line[2 * k + 1] # Bar

\* C2: in the text of a blockquote whose quoted children all sit at depth d,
\* every line of a child starts with exactly d+1 lead glyphs, the lines
\* after a child's first one included.
C2_BlockquoteLead ==
    Rendered("BlockQuote") =>
        \A d \in 0..(MaxQuoteDepth + 1) :
            QuoteLevels(LastChild, 0) = {d} =>
                \A n \in 1..Len(lines(text)) :
                    lines(text)[n] # <<>> => StartsWithLeads(lines(text)[n], d + 1)

\* the invariants of the data model on a table
WellFormedTable(t) ==
    /\ Len(t.alignments) = t.num_columns
    /\ \A r \in 1..Len(t.children) :
          /\ t.children[r].kind = "TableRow"
          /\ Len(t.children[r].children) = t.num_columns
          /\ \A c \in 1..t.num_columns : t.children[r].children[c].kind = "TableCell"
PlainLen(cell) == len(node_children_to_plain_text(cell))
\* the longest unstyled cell of column i
ColumnMax(t, i) ==
    LET ls == {PlainLen(t.children[r].children[i]) : r \in 1..Len(t.children)}
    IN CHOOSE m \in ls : \A l \in ls : l <= m
ShownCell(t, r, i) ==
    Displayed(table_cell_node_to_text(t.children[r].children[i], t.children[r].is_header,
                                      ColumnMax(t, i), t.alignments[i]))
RECURSIVE Sum(_, _)
Sum(f, n) == IF n = 0 THEN 0 ELSE f[n] + Sum(f, n - 1)

\* C3: every rendered cell of column i of a table that meets the invariants
\* shows exactly ColumnMax(i) + 1 characters, and so every row of the
\* returned text shows the sum of them.
C3_CellWidth ==
    (Rendered("Table") /\ WellFormedTable(LastChild)) =>
        LET t == LastChild
        IN \A r \in 1..Len(t.children) :
            /\ \A i \in 1..t.num_columns :
                  Len(ShownCell(t, r, i)) = ColumnMax(t, i) + 1
            /\ Len(Displayed(lines(text)[r + 1]))
                  = Sum([i \in 1..t.num_columns |-> ColumnMax(t, i) + 1], t.num_columns)

LeftPadding(alignment, p) ==
    CASE alignment = "Center" -> p \div 2
      [] alignment = "Right" -> p
      [] alignment \in {"Left", "None"} -> 0
RightPadding(alignment, p) ==
    CASE alignment = "Center" -> p - (p \div 2)
      [] alignment = "Right" -> 0
      [] alignment \in {"Left", "None"} -> p
CellPadding(t, r, i) == ColumnMax(t, i) - PlainLen(t.children[r].children[i])
EmptyCell(t, r, i) == node_children_to_plain_text(t.children[r].children[i]) = <<>>

\* C4: with p the column width less the cell's plain length, a rendered cell
\* starts with p/2 spaces when centred, p when right-aligned and none
\* otherwise, and ends with the rest of the p spaces after the separator
\* space; the returned row starts with the left padding of its first cell
\* and ends with the right padding of its last.
C4_Alignment ==
    (Rendered("Table") /\ WellFormedTable(LastChild)) =>
        LET t == LastChild
            n == t.num_columns
        IN \A r \in 1..Len(t.children) :
            /\ \A i \in 1..n :
                  LET p == CellPadding(t, r, i)
                      shown == ShownCell(t, r, i)
                  IN IF EmptyCell(t, r, i)
                     THEN shown = Spaces(p + 1)
                     ELSE /\ LeadSpaces(shown) = LeftPadding(t.alignments[i], p)
                          /\ TrailSpaces(shown) = RightPadding(t.alignments[i], p) + 1
            /\ LET row == Displayed(lines(text)[r + 1])
               IN /\ ~EmptyCell(t, r, 1) =>
                        LeadSpaces(row) = LeftPadding(t.alignments[1], CellPadding(t, r, 1))
                  /\ ~EmptyCell(t, r, n) =>
                        TrailSpaces(row)
                            = RightPadding(t.alignments[n], CellPadding(t, r, n)) + 1

\* a one-column table with a centred cell of padding three was rendered
C4_Witness ==
    /\ Rendered("Table")
    /\ WellFormedTable(LastChild)
    /\ LastChild.num_columns = 1
    /\ LastChild.alignments[1] = "Center"
    /\ \E r \in 1..Len(LastChild.children) :
          /\ ~EmptyCell(LastChild, r, 1)
          /\ CellPadding(LastChild, r, 1) = 3
          /\ LeadSpaces(Displayed(lines(text)[r + 1])) = 1
          /\ TrailSpaces(Displayed(lines(text)[r + 1])) = 3

\* the literals of the HtmlBlock and HtmlInline nodes of a tree
RECURSIVE HtmlLiterals(_)
HtmlLiterals(node) ==
    (IF node.kind \in {"HtmlBlock", "HtmlInline"} THEN {node.literal} ELSE {})
        \cup UNION {HtmlLiterals(node.children[i]) : i \in 1..Len(node.children)}

\* C5: the literal of every HtmlBlock and HtmlInline node of the tree is a
\* part of the returned text, wherever the node sits.
C5_HtmlPassthrough ==
    Returned => \A l \in HtmlLiterals(document) : Contains(document_string, l)

\* C6: the step over a child of the document that no rendering arm takes
\* appends a placeholder, which starts with the glyph, to the output and
\* writes nothing to standard output, the stream the output is printed to.
C6_UnexpectedNode ==
    [][(/\ pc = "render"
        /\ next_child <= Len(document.children)
        /\ document.children[next_child].kind \notin RenderedKinds
        /\ next_child' = next_child + 1)
       => /\ Len(document_string') > Len(document_string)
          /\ SubSeq(document_string', 1, Len(document_string)) = document_string
          /\ document_string'[Len(document_string) + 1] = Broken
          /\ stdout' = stdout]_vars

\* C7: rendering never panics, whatever the tree.
C7_NeverPanics == pc # "panic"

\* the invariants of the data model on a list: items of paragraphs and lists
RECURSIVE WellFormedList(_)
WellFormedList(l) ==
    \A i \in 1..Len(l.children) :
        /\ l.children[i].kind = "Item"
        /\ \A k \in 1..Len(l.children[i].children) :
              LET kid == l.children[i].children[k]
              IN \/ kid.kind = "Paragraph"
                 \/ kid.kind = "List" /\ WellFormedList(kid)

\* the paragraphs of the items of a list, in document order, each with its
\* level and the item it belongs to
RECURSIVE ListParagraphs(_, _), ItemParagraphsFrom(_, _, _), ItemsFrom(_, _, _)
ItemParagraphsFrom(item, k, level) ==
    IF k > Len(item.children) THEN <<>>
    ELSE (IF item.children[k].kind = "Paragraph"
          THEN <<[level |-> level, item |-> item, paragraph |-> item.children[k]]>>
          ELSE ListParagraphs(item.children[k], level + 1))
            \o ItemParagraphsFrom(item, k + 1, level)
ItemsFrom(l, i, level) ==
    IF i > Len(l.children) THEN <<>>
    ELSE ItemParagraphsFrom(l.children[i], 1, level) \o ItemsFrom(l, i + 1, level)
ListParagraphs(l, level) == ItemsFrom(l, 1, level)

\* the lines of a paragraph's own text
ParagraphLines(paragraph) == lines(node_children_to_text(paragraph, <<>>, <<>>) \o <<"\n">>)
\* the output line on which the k-th paragraph of ps starts
FirstLineAt(ps, k) ==
    1 + Sum([j \in 1..(k - 1) |-> Len(ParagraphLines(ps[j].paragraph))], k - 1)
Marker(item, level) ==
    IF item.list_type = "Bullet"
    THEN <<CASE level = 0 -> Bullet0 [] level = 1 -> Bullet1 [] OTHER -> Bullet2>>
    ELSE Digits(item.start) \o <<IF item.delimiter = "Period" THEN "." ELSE ")">>

\* the first output line of every item paragraph of the list just rendered
\* is `margin`, 4 x level spaces, the marker, a space and the item text
ItemFirstLines(margin) ==
    (Rendered("List") /\ WellFormedList(LastChild)) =>
        LET ps == ListParagraphs(LastChild, 0)
        IN \A k \in 1..Len(ps) :
            lines(text)[FirstLineAt(ps, k)]
                = margin \o Spaces(4 * ps[k].level) \o Marker(ps[k].item, ps[k].level)
                    \o <<" ">> \o ParagraphLines(ps[k].paragraph)[1]

C9_ContinuationAligned ==
    (Rendered("List") /\ WellFormedList(LastChild)) =>
        LET ps == ListParagraphs(LastChild, 0)
        IN \A k \in 1..Len(ps) :
            LET own == ParagraphLines(ps[k].paragraph)
                at == FirstLineAt(ps, k)
                column == Len(lines(text)[at]) - Len(own[1])
            IN \A j \in 2..Len(own) :
                lines(text)[at + j - 1] = Spaces(column) \o own[j]

\* the attribute sequence a heading of a level starts with
HeadingEnter(level) ==
    CASE level = 1 -> BoldUnderlined
      [] level = 2 -> BoldItalic
      [] level = 3 -> ItalicUnderlined
      [] level = 4 -> Italic
      [] level >= 5 -> Underlined
RECURSIVE InlineInOrder(_, _)
InlineInOrder(kids, n) ==
    IF n = 0 THEN <<>>
    ELSE InlineInOrder(kids, n - 1) \o text_node_to_formatted_text(kids[n])

\* C10: the text of a heading is one enter sequence of its level, the inline
\* text of its children in order, one reset and one blank line.
C10_HeadingWrap ==
    Rendered("Heading") =>
        text = <<HeadingEnter(LastChild.level)>>
                  \o InlineInOrder(LastChild.children, Len(LastChild.children))
                  \o <<Reset, "\n", "\n">>

\* what the arm of one child of a blockquote at a level yields by itself
QuoteChildText(child, level) ==
    IF child.kind = "BlockQuote"
    THEN blockquote_node_to_text(child, level + 1)
    ELSE repeat(<<Bar, " ">>, level + 1) \o node_children_to_text(child, <<>>, <<>>)
\* the parts occur in s after its first k tokens, one after the other
RECURSIVE AppearInOrder(_, _, _)
AppearInOrder(s, parts, k) ==
    IF parts = <<>> THEN TRUE
    ELSE \E i \in k..(Len(s) - Len(Head(parts))) :
            /\ SubSeq(s, i + 1, i + Len(Head(parts))) = Head(parts)
            /\ AppearInOrder(s, Tail(parts), i + Len(Head(parts)))

\* C11: the text of a blockquote holds the rendering of every one of its
\* children, one after the other in document order.
C11_BlockquoteChildrenKept ==
    Rendered("BlockQuote") =>
        AppearInOrder(text,
                      [i \in 1..Len(LastChild.children) |->
                          QuoteChildText(LastChild.children[i], 0)],
                      0)

====
